---- MODULE Spec2Model ----
(***************************************************************************)
(* DocuFold: the docstring detection engine (DocstringDetector), its       *)
(* pattern registry and its TTL cache.                                      *)
(*                                                                          *)
(* A line of text is a sequence of one-character strings, so that the       *)
(* regular expressions of the patterns are evaluated on characters.         *)
(* Line numbers and columns are 0-based as in the source; line k of the     *)
(* source is lines[k + 1] here.                                             *)
(***************************************************************************)
EXTENDS Integers, Sequences, FiniteSets, TLC

\* ------------------------------------------------------------------ bounds
MaxLines == 3
MaxRegs == 1
MaxVersion == 2
MaxTicks == 2
MaxCalls == 3
MaxStartLines == 8
LinearFactor == 4
MaxChunkSize == 3

\* --------------------------------------------------------- program constants
CacheTtl == 300000
CleanupWait == 30000
InvalidateAfter == 30000
FoldCleanupWait == 30000

None == "none"

\* ------------------------------------------------------------ characters
IsSpace(c) == c \in {" ", "\t"}

TripleDouble == <<"\"", "\"", "\"">>
TripleSingle == <<"'", "'", "'">>
BlockOpen == <<"/", "*", "*">>
BlockClose == <<"*", "/">>
TripleSlash == <<"/", "/", "/">>
NoMarker == <<>>

\* ---------------------------------------------------- regular expressions
\* All characters of s at positions a..b are whitespace (\s*).
AllSpace(s, a, b) == \A k \in a..b : IsSpace(s[k])

\* s holds the literal m at positions a .. a + Len(m) - 1.
HasAt(s, a, m) ==
    /\ a >= 1
    /\ a + Len(m) - 1 <= Len(s)
    /\ SubSeq(s, a, a + Len(m) - 1) = m

\* /^\s*(m)/ : some whitespace prefix of the line is followed by the marker;
\* capture group 1 is the marker, which must be non-empty (startMatch[1]).
StartPatternMatches(line, m) ==
    /\ m # <<>>
    /\ \E p \in 1..(Len(line) + 1) : AllSpace(line, 1, p - 1) /\ HasAt(line, p, m)

\* The index of a match anchored at ^ is the start of the line.
StartMatchIndex(line, m) == 0

\* /(m)\s*$/ , and /$/ when m is empty: the marker ends the line up to
\* trailing whitespace.
EndPatternTest(line, m) ==
    \E q \in 0..Len(line) :
        /\ AllSpace(line, q + 1, Len(line))
        /\ HasAt(line, q - Len(m) + 1, m)

\* /^\s*(open.+close)\s*$/ : marker, at least one character, closing marker.
SingleLinePatternMatches(line, open, close) ==
    \E p \in 1..(Len(line) + 1) : \E q \in 0..Len(line) :
        /\ AllSpace(line, 1, p - 1)
        /\ HasAt(line, p, open)
        /\ AllSpace(line, q + 1, Len(line))
        /\ HasAt(line, q - Len(close) + 1, close)
        /\ (q - Len(close)) - (p + Len(open) - 1) >= 1

\* ---------------------------------------------------------------- patterns
\* A DocstringPattern: startPattern /^\s*(start)/, endPattern /(end)\s*$/,
\* singleLinePattern /^\s*(start.+end)\s*$/.
Pattern(lang, start, end, multi) ==
    [language |-> lang, startPattern |-> start, endPattern |-> end,
     singleLinePattern |-> TRUE, multiline |-> multi]

PyDouble == Pattern("python", TripleDouble, TripleDouble, TRUE)
PySingle == Pattern("python", TripleSingle, TripleSingle, TRUE)
JsDoc(lang) == Pattern(lang, BlockOpen, BlockClose, TRUE)
CsXmlDoc == Pattern("csharp", TripleSlash, NoMarker, FALSE)

BuiltinPatterns ==
    << PyDouble, PySingle, JsDoc("javascript"), JsDoc("typescript"),
       JsDoc("java"), CsXmlDoc, JsDoc("csharp"), JsDoc("php"),
       JsDoc("jsx-tags"), JsDoc("tsx-tags") >>

\* Patterns an extension registers at run time: the rust pattern of the
\* registry tests, and a loose python pattern that closes at any line end.
RustDoc == Pattern("rust", TripleSlash, NoMarker, FALSE)
LoosePython == Pattern("python", TripleDouble, NoMarker, TRUE)
CustomPatterns == {RustDoc, LoosePython}

\* A pattern object whose endPattern is not a RegExp and that has no
\* singleLinePattern, as one read from JSON: endPattern.test is not a
\* function, so calling it throws a TypeError.
NotARegExp == << "{}" >>
FaultyPython ==
    [language |-> "python", startPattern |-> TripleDouble,
     endPattern |-> NotARegExp, singleLinePattern |-> FALSE,
     multiline |-> TRUE]

\* --------------------------------------------------------------- registry
\* this.patterns: a Map from language to its list of patterns.
RegisterPatternInFront(reg, p) ==
    LET existing == IF p.language \in DOMAIN reg THEN reg[p.language] ELSE <<>>
    IN  [l \in (DOMAIN reg) \cup {p.language} |->
            IF l = p.language THEN << p >> \o existing ELSE reg[l]]

RegisterPatternIn(reg, p) ==
    LET existing == IF p.language \in DOMAIN reg THEN reg[p.language] ELSE <<>>
    IN  [l \in (DOMAIN reg) \cup {p.language} |->
            IF l = p.language THEN Append(existing, p) ELSE reg[l]]

RegisterPatternsIn(reg, lang, ps) ==
    LET existing == IF lang \in DOMAIN reg THEN reg[lang] ELSE <<>>
    IN  [l \in (DOMAIN reg) \cup {lang} |->
            IF l = lang THEN existing \o ps ELSE reg[l]]

EmptyRegistry == [l \in {} |-> <<>>]

RECURSIVE RegisterAll(_, _)
RegisterAll(reg, ps) ==
    IF ps = <<>> THEN reg
    ELSE RegisterAll(RegisterPatternIn(reg, Head(ps)), Tail(ps))

InitializePatterns == RegisterAll(EmptyRegistry, BuiltinPatterns)

GetPatterns(reg, lang) == IF lang \in DOMAIN reg THEN reg[lang] ELSE <<>>
GetSupportedLanguages(reg) == DOMAIN reg
IsLanguageSupported(reg, lang) == lang \in DOMAIN reg /\ Len(reg[lang]) > 0

\* ------------------------------------------------------------ language map
LanguageIds ==
    {"python", "javascript", "typescript", "javascriptreact",
     "typescriptreact", "java", "csharp", "php"}

LanguageMap(id) ==
    CASE id = "javascriptreact" -> "jsx-tags"
      [] id = "typescriptreact" -> "tsx-tags"
      [] OTHER -> id

\* LANGUAGE_MAP[document.languageId], undefined for an unmapped id.
DetectLanguageOrId(id) == IF id \in LanguageIds THEN LanguageMap(id) ELSE id

DetectLanguage(id) == IF id \in LanguageIds THEN LanguageMap(id) ELSE None

\* ---------------------------------------------------------------- strings
\* A string is the sequence of its characters; "\n" separates lines.
Newline == "\n"

\* \s of String.prototype.trim and of the regular expressions.
IsWhite(c) == IsSpace(c) \/ c = Newline

RECURSIVE TrimStart(_)
TrimStart(s) ==
    IF s # <<>> /\ IsWhite(Head(s)) THEN TrimStart(Tail(s)) ELSE s

RECURSIVE TrimEnd(_)
TrimEnd(s) ==
    IF s # <<>> /\ IsWhite(s[Len(s)])
    THEN TrimEnd(SubSeq(s, 1, Len(s) - 1)) ELSE s

\* s.trim()
Trim(s) == TrimEnd(TrimStart(s))

\* lines.join('\n')
RECURSIVE Join(_)
Join(ls) ==
    IF ls = <<>> THEN <<>>
    ELSE IF Len(ls) = 1 THEN ls[1]
    ELSE ls[1] \o << Newline >> \o Join(Tail(ls))

\* s.split('\n')
RECURSIVE Split(_)
Split(s) ==
    IF \A k \in 1..Len(s) : s[k] # Newline THEN << s >>
    ELSE LET k == CHOOSE k \in 1..Len(s) :
                      s[k] = Newline /\ \A j \in 1..(k - 1) : s[j] # Newline
         IN  << SubSeq(s, 1, k - 1) >> \o Split(SubSeq(s, k + 1, Len(s)))

\* s.replace(/m1|m2/g, ''): every match, left to right, is removed; at one
\* position the alternatives ms are tried in order.
RECURSIVE RemoveAll(_, _)
RemoveAll(s, ms) ==
    LET Matches(k) == \E m \in 1..Len(ms) : HasAt(s, k, ms[m])
    IN  IF ~\E k \in 1..Len(s) : Matches(k) THEN s
        ELSE LET k == CHOOSE k \in 1..Len(s) :
                          Matches(k) /\ \A j \in 1..(k - 1) : ~Matches(j)
                 m == CHOOSE m \in 1..Len(ms) :
                          /\ HasAt(s, k, ms[m])
                          /\ \A j \in 1..(m - 1) : ~HasAt(s, k, ms[j])
             IN  SubSeq(s, 1, k - 1)
                 \o RemoveAll(SubSeq(s, k + Len(ms[m]), Len(s)), ms)

\* The least index k >= from at which s holds the literal m; 0 if none.
FindFrom(s, m, from) ==
    IF \E k \in from..Len(s) : HasAt(s, k, m)
    THEN CHOOSE k \in from..Len(s) :
             HasAt(s, k, m) /\ \A j \in from..(k - 1) : ~HasAt(s, j, m)
    ELSE 0

\* The first element of a list of strings that is not empty; <<>> if none.
FirstNonEmpty(ls) ==
    IF \E k \in 1..Len(ls) : ls[k] # <<>>
    THEN ls[CHOOSE k \in 1..Len(ls) :
                ls[k] # <<>> /\ \A j \in 1..(k - 1) : ls[j] = <<>>]
    ELSE <<>>

HasNonEmpty(ls) == \E k \in 1..Len(ls) : ls[k] # <<>>

\* ---------------------------------------------------------------- previews
MaxLength == 60

\* docufold.previewLength: its default and its valid range.
DefaultPreviewLength == 60
MinPreviewLength == 20
MaxPreviewLength == 200

Ellipsis == <<".", ".", ".">>
DocstringLabel == <<"D", "o", "c", "s", "t", "r", "i", "n", "g">>
DocumentationLabel ==
    <<"D", "o", "c", "u", "m", "e", "n", "t", "a", "t", "i", "o", "n">>

SummaryOpen == <<"<", "s", "u", "m", "m", "a", "r", "y", ">">>
SummaryClose == <<"<", "/", "s", "u", "m", "m", "a", "r", "y", ">">>

\* limitPreviewLength(preview, fallback)
LimitPreviewLengthCutAtMax(preview, fallback) ==
    IF Trim(preview) = <<>> THEN fallback
    ELSE IF Len(preview) > MaxLength
    THEN SubSeq(preview, 1, MaxLength) \o Ellipsis
    ELSE preview

LimitPreviewLength(preview, fallback) ==
    IF Trim(preview) = <<>> THEN fallback
    ELSE IF Len(preview) > MaxLength
    THEN SubSeq(preview, 1, MaxLength - 3) \o Ellipsis
    ELSE preview

\* extractPythonPreview(content): the local preview before the limit.
PythonPreviewText(content) ==
    LET stripped == Trim(RemoveAll(content, << TripleDouble, TripleSingle >>))
        lines == Split(stripped)
        trimmed == [k \in 1..Len(lines) |-> Trim(lines[k])]
    IN  IF HasNonEmpty(trimmed) THEN FirstNonEmpty(trimmed) ELSE stripped

\* extractPythonPreview(content)
ExtractPythonPreview(content) ==
    LimitPreviewLength(PythonPreviewText(content), DocstringLabel)

\* line.replace(/^\s*\*\s?/, '')
StripLeadingStar(line) ==
    LET t == TrimStart(line)
    IN  IF t # <<>> /\ Head(t) = "*"
        THEN IF Len(t) >= 2 /\ IsWhite(t[2]) THEN SubSeq(t, 3, Len(t))
             ELSE Tail(t)
        ELSE line

\* extractBlockCommentPreview(content): the local preview before the limit.
BlockCommentPreviewText(content) ==
    LET stripped == Trim(RemoveAll(content, << BlockOpen, BlockClose >>))
        lines == Split(stripped)
        trimmed == [k \in 1..Len(lines) |-> Trim(StripLeadingStar(lines[k]))]
    IN  IF HasNonEmpty(trimmed) THEN FirstNonEmpty(trimmed) ELSE stripped

\* extractBlockCommentPreview(content)
ExtractBlockCommentPreview(content) ==
    LimitPreviewLength(BlockCommentPreviewText(content), DocumentationLabel)

\* trimmed.match(/<summary>(.*?)<\/summary>/)[1]; <<>> if there is no match.
SummaryMatch(t) ==
    LET a == FindFrom(t, SummaryOpen, 1)
        b == IF a = 0 THEN 0 ELSE FindFrom(t, SummaryClose, a + Len(SummaryOpen))
    IN  IF b = 0 THEN <<>> ELSE SubSeq(t, a + Len(SummaryOpen), b - 1)

\* trimmed.match(/>([^<]+)</)[1]; <<>> if there is no match.
ContentMatch(t) ==
    LET Starts(a) == /\ t[a] = ">"
                     /\ a + 1 <= Len(t)
                     /\ t[a + 1] # "<"
                     /\ FindFrom(t, <<"<">>, a + 1) # 0
    IN  IF \E a \in 1..Len(t) : Starts(a)
        THEN LET a == CHOOSE a \in 1..Len(t) :
                          Starts(a) /\ \A j \in 1..(a - 1) : ~Starts(j)
             IN  SubSeq(t, a + 1, FindFrom(t, <<"<">>, a + 1) - 1)
        ELSE <<>>

\* extractCSharpPreview(content): the local preview before the limit.
CSharpPreviewText(content) ==
    LET stripped == Trim(RemoveAll(content, << TripleSlash >>))
        lines == Split(stripped)
        trimmed == FirstNonEmpty([k \in 1..Len(lines) |-> Trim(lines[k])])
    IN  IF trimmed = <<>> THEN stripped
        ELSE IF SummaryMatch(trimmed) # <<>> THEN Trim(SummaryMatch(trimmed))
        ELSE IF ContentMatch(trimmed) # <<>> THEN Trim(ContentMatch(trimmed))
        ELSE trimmed

\* extractCSharpPreview(content)
ExtractCSharpPreview(content) ==
    LimitPreviewLength(CSharpPreviewText(content), DocumentationLabel)

\* extractGenericPreview(content): the first non-empty trimmed line.
GenericPreviewText(content) ==
    LET lines == Split(content)
    IN  FirstNonEmpty([k \in 1..Len(lines) |-> Trim(lines[k])])

\* extractGenericPreview(content)
ExtractGenericPreview(content) ==
    IF GenericPreviewText(content) = <<>> THEN DocumentationLabel
    ELSE LimitPreviewLength(GenericPreviewText(content), DocumentationLabel)

\* extractPreviewByLanguage(content, language)
ExtractPreviewByLanguage(content, language) ==
    CASE language = "python" -> ExtractPythonPreview(content)
      [] language = "csharp" -> ExtractCSharpPreview(content)
      [] language \in {"javascript", "typescript", "java", "php",
                       "jsx-tags", "tsx-tags"} ->
             ExtractBlockCommentPreview(content)
      [] OTHER -> ExtractGenericPreview(content)

\* -------------------------------------------------------------- detection
\* A DocstringInfo: positions, content, preview, language and the
\* single-line flag.
Docstring(sl, sc, el, ec, single, lang, content) ==
    [startLine |-> sl, startColumn |-> sc, endLine |-> el, endColumn |-> ec,
     isSingleLine |-> single, language |-> lang, content |-> content,
     preview |-> ExtractPreviewByLanguage(content, lang)]

\* singleLineMatch[1] of /^\s*(open.+close)\s*$/: the line from its marker
\* to its closing marker, or to its end when the pattern closes at /$/.
SingleLineCapture(line, pattern) ==
    IF pattern.endPattern = NoMarker THEN TrimStart(line) ELSE Trim(line)

\* The inner while loop of detectMultilineDocstrings: from endLine on, the
\* first line that is non-empty and passes endPattern; Len(lines) if none.
RECURSIVE FindEndLine(_, _, _)
FindEndLine(lines, pattern, endLine) ==
    IF endLine >= Len(lines) THEN Len(lines)
    ELSE IF lines[endLine + 1] # <<>>
            /\ EndPatternTest(lines[endLine + 1], pattern.endPattern)
         THEN endLine
         ELSE FindEndLine(lines, pattern, endLine + 1)

\* The branch taken when the end search ran off the file: the candidate is
\* dropped and the cursor moves on by one.
UnterminatedEmitsToEof(lines, language, i) ==
    [i |-> Len(lines),
     emit |-> << Docstring(i, 0, Len(lines) - 1, Len(lines[Len(lines)]),
                           FALSE, language,
                           Join(SubSeq(lines, i + 1, Len(lines)))) >>]

\* The candidate whose end search ran off the file leaves the cursor where
\* it was.
UnterminatedStays(lines, language, i) == [i |-> i, emit |-> <<>>]

Unterminated(lines, language, i) == [i |-> i + 1, emit |-> <<>>]

\* One iteration of the outer while loop of detectMultilineDocstrings at
\* cursor i: the next cursor and the docstrings pushed (none or one).
MultilineStep(lines, language, pattern, i) ==
    LET line == lines[i + 1]
    IN  IF line = <<>> THEN [i |-> i + 1, emit |-> <<>>]
        ELSE IF StartPatternMatches(line, pattern.startPattern)
        THEN LET startCol == StartMatchIndex(line, pattern.startPattern)
             IN  IF pattern.singleLinePattern
                    /\ SingleLinePatternMatches(line, pattern.startPattern,
                                                pattern.endPattern)
                 THEN [i |-> i + 1,
                       emit |-> << Docstring(i, startCol, i, Len(line), TRUE,
                                             language,
                                             SingleLineCapture(line, pattern)) >>]
                 ELSE LET endLine == FindEndLine(lines, pattern, i)
                      IN  IF endLine < Len(lines)
                          THEN [i |-> endLine + 1,
                                emit |-> << Docstring(i, startCol, endLine,
                                                Len(lines[endLine + 1]), FALSE,
                                                language,
                                                Join(SubSeq(lines, i + 1,
                                                            endLine + 1))) >>]
                          ELSE Unterminated(lines, language, i)
        ELSE [i |-> i + 1, emit |-> <<>>]

\* The run is extended by one line at most.
ExtendRunByOne(lines, pattern, endLine) ==
    IF endLine + 1 < Len(lines)
       /\ lines[endLine + 2] # <<>>
       /\ StartPatternMatches(lines[endLine + 2], pattern.startPattern)
    THEN endLine + 1
    ELSE endLine

\* The inner while loop of detectSingleLineDocstrings: the last line of the
\* run of consecutive non-empty lines passing startPattern that starts at
\* endLine.
RECURSIVE ExtendRun(_, _, _)
ExtendRun(lines, pattern, endLine) ==
    IF endLine + 1 < Len(lines)
       /\ lines[endLine + 2] # <<>>
       /\ StartPatternMatches(lines[endLine + 2], pattern.startPattern)
    THEN ExtendRun(lines, pattern, endLine + 1)
    ELSE endLine

\* One iteration of the outer while loop of detectSingleLineDocstrings.
SingleLineStep(lines, language, pattern, i) ==
    LET line == lines[i + 1]
    IN  IF line = <<>> THEN [i |-> i + 1, emit |-> <<>>]
        ELSE IF StartPatternMatches(line, pattern.startPattern)
        THEN LET endLine == ExtendRun(lines, pattern, i)
             IN  [i |-> endLine + 1,
                  emit |-> << Docstring(i,
                                StartMatchIndex(line, pattern.startPattern),
                                endLine, Len(lines[endLine + 1]), i = endLine,
                                language,
                                Join(SubSeq(lines, i + 1, endLine + 1))) >>]
        ELSE [i |-> i + 1, emit |-> <<>>]

\* The iteration at cursor i throws: a multiline pass reaches its end search
\* on a non-empty start line, and pattern.endPattern.test is not callable.
StepThrows(lines, pattern, i) ==
    /\ pattern.multiline
    /\ lines[i + 1] # <<>>
    /\ StartPatternMatches(lines[i + 1], pattern.startPattern)
    /\ ~( /\ pattern.singleLinePattern
          /\ SingleLinePatternMatches(lines[i + 1], pattern.startPattern,
                                      pattern.endPattern) )
    /\ pattern.endPattern = NotARegExp

\* The lines the end search of detectMultilineDocstrings tests against
\* endPattern from line endLine on: every non-empty line up to and including
\* the first that passes, all of them to the end of the text if none does.
RECURSIVE EndTests(_, _, _)
EndTests(lines, pattern, endLine) ==
    IF endLine >= Len(lines) THEN 0
    ELSE IF lines[endLine + 1] = <<>>
         THEN EndTests(lines, pattern, endLine + 1)
         ELSE IF EndPatternTest(lines[endLine + 1], pattern.endPattern)
              THEN 1
              ELSE 1 + EndTests(lines, pattern, endLine + 1)

\* The line tests of one iteration at cursor i: the start test of a
\* non-empty line, and then the tests of the end search (multiline) or of the
\* run extension (per line), which tests each following line up to and
\* including the first non-empty one that fails.
StepTests(lines, pattern, i) ==
    LET line == lines[i + 1]
    IN  IF line = <<>> THEN 0
        ELSE IF ~StartPatternMatches(line, pattern.startPattern) THEN 1
        ELSE IF pattern.multiline
        THEN IF pattern.singleLinePattern
                /\ SingleLinePatternMatches(line, pattern.startPattern,
                                            pattern.endPattern)
             THEN 1
             ELSE 1 + EndTests(lines, pattern, i)
        ELSE LET endLine == ExtendRun(lines, pattern, i)
             IN  1 + (endLine - i)
                   + (IF endLine + 1 < Len(lines) /\ lines[endLine + 2] # <<>>
                      THEN 1 ELSE 0)

\* The loop body performDetection dispatches to, by pattern.multiline.
PatternStep(lines, language, pattern, i) ==
    IF pattern.multiline THEN MultilineStep(lines, language, pattern, i)
    ELSE SingleLineStep(lines, language, pattern, i)

\* A whole pass of one pattern from cursor i: the docstrings it returns.
RECURSIVE PatternPass(_, _, _, _)
PatternPass(lines, language, pattern, i) ==
    IF i >= Len(lines) THEN <<>>
    ELSE LET s == PatternStep(lines, language, pattern, i)
         IN  s.emit \o PatternPass(lines, language, pattern, s.i)

\* ---------------------------------------------------------- de-duplication
DigitChars == <<"0", "1", "2", "3", "4", "5", "6", "7", "8", "9">>

\* Number-to-string conversion of a template literal.
RECURSIVE ToDigits(_)
ToDigits(n) ==
    IF n < 10 THEN << DigitChars[n + 1] >>
    ELSE Append(ToDigits(n \div 10), DigitChars[(n % 10) + 1])

\* `${startLine}-${startCharacter}-${endLine}-${endCharacter}`
DedupKeyStartOnly(d) ==
    ToDigits(d.startLine) \o <<"-">> \o ToDigits(d.startColumn)

DedupKey(d) ==
    ToDigits(d.startLine) \o <<"-">> \o ToDigits(d.startColumn) \o <<"-">>
    \o ToDigits(d.endLine) \o <<"-">> \o ToDigits(d.endColumn)

RECURSIVE FilterSeen(_, _)
FilterSeen(docstrings, seen) ==
    IF docstrings = <<>> THEN <<>>
    ELSE LET key == DedupKey(Head(docstrings))
         IN  IF key \in seen THEN FilterSeen(Tail(docstrings), seen)
             ELSE << Head(docstrings) >>
                  \o FilterSeen(Tail(docstrings), seen \cup {key})

RemoveDuplicates(docstrings) == FilterSeen(docstrings, {})

\* The for loop of performDetection over the patterns of the language.
RECURSIVE AllPasses(_, _, _)
AllPasses(lines, language, patterns) ==
    IF patterns = <<>> THEN <<>>
    ELSE PatternPass(lines, language, Head(patterns), 0)
         \o AllPasses(lines, language, Tail(patterns))

PerformDetection(reg, lines, language) ==
    LET patterns == GetPatterns(reg, language)
    IN  IF patterns = <<>> THEN <<>>
        ELSE RemoveDuplicates(AllPasses(lines, language, patterns))

\* ------------------------------------------------------------------ texts
Code == <<"x">>
Indent(line) == <<" ">> \o line

PythonLines ==
    { <<>>, Code, TripleDouble, Indent(TripleDouble),
      TripleDouble \o Code \o TripleDouble, TripleDouble \o Code,
      Code \o TripleDouble, TripleSingle \o Code \o TripleSingle }

BlockCommentLines ==
    { <<>>, Code, BlockOpen, Indent(BlockClose), BlockOpen \o Code \o BlockClose,
      <<"*">> \o Code, BlockOpen \o <<"/">> }

CSharpLines ==
    { <<>>, Code, TripleSlash \o Code, Indent(TripleSlash), BlockOpen,
      BlockClose }

LinesOf(id) ==
    CASE id = "python" -> PythonLines
      [] id = "csharp" -> CSharpLines
      [] OTHER -> BlockCommentLines

\* text.split('\n') of a document: one line at least.
TextsOf(id) ==
    UNION { [1..n -> LinesOf(id)] : n \in 1..MaxLines }

ScanLanguageIds == {"python", "csharp", "javascript"}

\* The two open documents: their URIs, and the texts each may hold.
UriF == <<"f">>
UriF1 == <<"f", "-", "1">>
Uris == {UriF, UriF1}

DocLanguageIds(uri) ==
    IF uri = UriF THEN {"python"} ELSE {"javascriptreact", "plaintext", "rust"}

DocTexts(uri) ==
    IF uri = UriF
    THEN { << TripleDouble \o Code, Code \o TripleDouble >>,
           << TripleDouble \o Code \o TripleDouble >> }
    ELSE { << BlockOpen \o Code \o BlockClose, TripleSlash \o Code >>,
           << BlockOpen, Indent(BlockClose) >> }

\* Texts whose docstrings have long, blank and tagged content.
Digits(n) == [k \in 1..n |-> DigitChars[(k % 10) + 1]]
Space == <<" ">>

PreviewLines(id) ==
    CASE id = "python" ->
           { TripleDouble \o Digits(MaxLength + 1), Code \o TripleDouble,
             TripleDouble \o Digits(MaxLength) \o TripleDouble,
             TripleDouble, Space, TripleDouble \o Space \o TripleDouble }
      [] id = "csharp" ->
           { TripleSlash, TripleSlash \o Space \o SummaryOpen,
             TripleSlash \o Space \o Code,
             TripleSlash \o Space \o SummaryClose,
             TripleSlash \o Space \o SummaryOpen \o Code \o SummaryClose,
             TripleSlash \o Space \o Digits(MaxLength + 1) }
      [] OTHER ->
           { BlockOpen, <<" ", "*">>,
             <<" ", "*", " ">> \o Digits(MaxLength + 1),
             Indent(BlockClose), BlockOpen \o Space \o BlockClose,
             BlockOpen \o Space \o Code \o Space \o BlockClose }

PreviewTextsOf(id) ==
    UNION { [1..n -> PreviewLines(id)] : n \in 1..MaxLines }

\* ------------------------------------------------------------- cache key
\* The characters of a language name, '-' apart as in the key's separators.
LanguageChars(language) ==
    CASE language = "jsx-tags" -> <<"jsx", "-", "tags">>
      [] language = "tsx-tags" -> <<"tsx", "-", "tags">>
      [] OTHER -> << language >>

\* `${document.uri.toString()}-${document.version}-${language}`
CreateCacheKeyNoVersion(uri, version, language) ==
    uri \o <<"-">> \o LanguageChars(language)

CreateCacheKey(uri, version, language) ==
    uri \o <<"-">> \o ToDigits(version) \o <<"-">> \o LanguageChars(language)

\* --------------------------------------------------------------- TTLCache
\* The Map of a TTLCache: key -> [value, expiry].
EmptyCache == [k \in {} |-> None]

\* Date.now() > item.expiry
IsExpiredAtExpiry(item, t) == t >= item.expiry

IsExpired(item, t) == t > item.expiry

\* get(key) returns a value.
CacheHit(c, key, t) == key \in DOMAIN c /\ ~IsExpired(c[key], t)

\* The Map after get(key): an expired entry is deleted.
CacheAfterGet(c, key, t) ==
    IF key \in DOMAIN c /\ IsExpired(c[key], t)
    THEN [k \in (DOMAIN c) \ {key} |-> c[k]]
    ELSE c

\* set(key, value)
\* set() keeps the entry the key already has.
CacheSetIfAbsent(c, key, value, t) ==
    IF key \in DOMAIN c THEN c
    ELSE [x \in (DOMAIN c) \cup {key} |->
            IF x = key THEN [value |-> value, expiry |-> t + CacheTtl]
            ELSE c[x]]

CacheSet(c, key, value, t) ==
    [k \in (DOMAIN c) \cup {key} |->
        IF k = key THEN [value |-> value, expiry |-> t + CacheTtl] ELSE c[k]]

\* cleanup() empties the Map.
CacheCleanupAll(c, t) == EmptyCache

\* cleanup()
CacheCleanup(c, t) ==
    [k \in {k \in DOMAIN c : ~IsExpired(c[k], t)} |-> c[k]]

\* size()
CacheSize(c) == Cardinality(DOMAIN c)

\* ------------------------------------------------------------------ state
VARIABLES
    patterns,   \* DocstringDetector.patterns, the registry
    scan,       \* the performDetection call in progress (SpecScan)
    docs,       \* the open documents: uri -> [languageId, version, lines]
    cache,      \* DocstringDetector.cache, the Map of the TTLCache
    now,        \* Date.now()
    timer,      \* the pending timeout of debouncedCacheCleanup: << due time >>
    pending,    \* detectDocstrings calls suspended at the await, in order
    ticks,      \* clock advances so far
    ncalls,     \* detectDocstrings calls so far
    lastCall,   \* history: the most recent detectDocstrings call
    history,    \* history: (uri, version, languageId) -> its most recent call
    setAt,      \* history: key -> time and value of its last set since clear()
    cleared,    \* history: clearCache() ran and no detectDocstrings began
                \* since ("idle", or "inflight" if a call was suspended)
    armedAt,    \* history: when debouncedCacheCleanup was last called, << t >>
    token,      \* the caller's CancellationToken: isCancellationRequested
    previewLength,  \* the configured docufold.previewLength
    foldCache,  \* DocuFoldRangeProvider.cache, the Map of its TTLCache
    foldTimer,  \* the pending timeout of the provider's debounced cleanup
    provides,   \* provideFoldingRanges calls suspended at their await
    lastProvide,    \* history: the most recent provideFoldingRanges return
    large       \* the processLargeFile call in progress

vars == <<patterns, scan, docs, cache, now, timer, pending, ticks, ncalls,
          lastCall, history, setAt, cleared, armedAt, token, previewLength,
          foldCache, foldTimer, provides, lastProvide, large>>

detectorVars == <<docs, cache, now, timer, pending, ticks, ncalls, lastCall,
                  history, setAt, cleared, armedAt>>

providerVars == <<foldCache, foldTimer, provides, lastProvide, large>>

hostVars == <<token, previewLength, providerVars>>

\* clear(): the Map is emptied, whatever it held.
CacheClearExpiredOnly(c) == CacheCleanup(c, now)

CacheClear(c) == EmptyCache

\* Patterns registered after construction.
RegCount(reg) ==
    LET RECURSIVE Sum(_)
        Sum(ls) == IF ls = {} THEN 0
                   ELSE LET l == CHOOSE l \in ls : TRUE
                        IN  Len(reg[l]) + Sum(ls \ {l})
    IN  Sum(DOMAIN reg) - Len(BuiltinPatterns)

IdleScan ==
    [pc |-> "idle", lines |-> <<>>, language |-> None, patterns |-> <<>>,
     pidx |-> 0, i |-> 0, docstrings |-> <<>>, pass |-> <<>>,
     tests |-> 0, result |-> <<>>]

NoCall ==
    [called |-> FALSE, uri |-> <<>>, version |-> 0, languageId |-> None,
     language |-> None, supported |-> {}, result |-> <<>>,
     fromCache |-> FALSE, scanned |-> FALSE, fresh |-> <<>>,
     isNew |-> FALSE, repeats |-> FALSE, previous |-> <<>>,
     afterClear |-> "no", looked |-> FALSE, lookedAt |-> 0, held |-> FALSE,
     stored |-> <<>>, keyLeft |-> FALSE]

NoProvide ==
    [returned |-> FALSE, uri |-> <<>>, version |-> 0, languageId |-> None,
     ranges |-> <<>>, docstrings |-> <<>>, detected |-> FALSE,
     fromCache |-> FALSE, cancelled |-> "no", scan |-> <<>>]

IdleLarge ==
    [pc |-> "idle", uri |-> <<>>, chunkSize |-> 0, i |-> 0, totalChunks |-> 0,
     lineCount |-> 0, allRanges |-> <<>>, docstrings |-> <<>>,
     suspended |-> FALSE, returned |-> FALSE]

\* ------------------------------------------------------------ the registry
\* registerPattern(p)
RegisterPattern(p) ==
    /\ scan.pc = "idle"
    /\ RegCount(patterns) < MaxRegs
    /\ patterns' = RegisterPatternIn(patterns, p)
    /\ UNCHANGED <<scan, docs, cache, now, timer, pending, ticks, ncalls,
                   lastCall, history, setAt, cleared, armedAt,
                   hostVars>>

\* registerPatterns(language, ps)
RegisterPatterns(language, ps) ==
    /\ scan.pc = "idle"
    /\ RegCount(patterns) + Len(ps) <= MaxRegs
    /\ ps = <<>> => language \notin DOMAIN patterns
    /\ patterns' = RegisterPatternsIn(patterns, language, ps)
    /\ UNCHANGED <<scan, docs, cache, now, timer, pending, ticks, ncalls,
                   lastCall, history, setAt, cleared, armedAt,
                   hostVars>>

\* ------------------------------------------------- the scan, step by step
\* performDetection(document, language) up to the for loop.
ScanStart(id, lines) ==
    /\ scan.pc = "idle"
    /\ LET language == DetectLanguage(id)
           pats == GetPatterns(patterns, language)
       IN  scan' = IF pats = <<>>
                   THEN [IdleScan EXCEPT !.pc = "done", !.lines = lines,
                                         !.language = language]
                   ELSE [IdleScan EXCEPT !.pc = "scan", !.lines = lines,
                                         !.language = language,
                                         !.patterns = pats, !.pidx = 1]
    /\ UNCHANGED <<patterns, detectorVars, hostVars>>

\* The iteration puts what it pushes in front of the list.
ScanStepPrepends ==
    /\ scan.pc = "scan"
    /\ scan.i < Len(scan.lines)
    /\ ~StepThrows(scan.lines, scan.patterns[scan.pidx], scan.i)
    /\ LET s == PatternStep(scan.lines, scan.language,
                            scan.patterns[scan.pidx], scan.i)
       IN  scan' = [scan EXCEPT !.i = s.i,
                                !.docstrings = s.emit \o scan.docstrings,
                                !.pass = [k \in 1..Len(s.emit) |-> scan.pidx]
                                         \o scan.pass]
    /\ UNCHANGED <<patterns, detectorVars, hostVars>>

\* One iteration of the while loop of the current pattern's pass. History:
\* pass holds, for each docstring pushed, the index of the pattern whose pass
\* pushed it, and tests counts the line tests of the current pass.
ScanStep ==
    /\ scan.pc = "scan"
    /\ scan.i < Len(scan.lines)
    /\ ~StepThrows(scan.lines, scan.patterns[scan.pidx], scan.i)
    /\ LET s == PatternStep(scan.lines, scan.language,
                            scan.patterns[scan.pidx], scan.i)
       IN  scan' = [scan EXCEPT !.i = s.i,
                                !.docstrings = scan.docstrings \o s.emit,
                                !.pass = scan.pass
                                         \o [k \in 1..Len(s.emit) |-> scan.pidx],
                                !.tests = scan.tests
                                    + StepTests(scan.lines,
                                                scan.patterns[scan.pidx],
                                                scan.i)]
    /\ UNCHANGED <<patterns, detectorVars, hostVars>>

\* The iteration throws: nothing in performDetection or detectDocstrings
\* catches, so the call ends with the exception and returns no list.
ScanThrow ==
    /\ scan.pc = "scan"
    /\ scan.i < Len(scan.lines)
    /\ StepThrows(scan.lines, scan.patterns[scan.pidx], scan.i)
    /\ scan' = [scan EXCEPT !.pc = "threw"]
    /\ UNCHANGED <<patterns, detectorVars, hostVars>>

\* The pass of one pattern is over: the for loop takes the next pattern.
ScanNextPattern ==
    /\ scan.pc = "scan"
    /\ scan.i >= Len(scan.lines)
    /\ scan.pidx < Len(scan.patterns)
    /\ scan' = [scan EXCEPT !.pidx = scan.pidx + 1, !.i = 0, !.tests = 0]
    /\ UNCHANGED <<patterns, detectorVars, hostVars>>

\* return this.removeDuplicates(docstrings)
ScanFinish ==
    /\ scan.pc = "scan"
    /\ scan.i >= Len(scan.lines)
    /\ scan.pidx = Len(scan.patterns)
    /\ scan' = [scan EXCEPT !.pc = "done",
                            !.result = RemoveDuplicates(scan.docstrings)]
    /\ UNCHANGED <<patterns, detectorVars, hostVars>>

\* The detector after construction, with no document detected yet.
InitDetector ==
    /\ patterns = InitializePatterns
    /\ scan = IdleScan
    /\ cache = EmptyCache
    /\ now = 0
    /\ timer = <<>>
    /\ pending = <<>>
    /\ ticks = 0
    /\ ncalls = 0
    /\ lastCall = NoCall
    /\ history = [t \in {} |-> None]
    /\ setAt = [k \in {} |-> None]
    /\ cleared = "no"
    /\ armedAt = <<>>
    /\ token = FALSE
    /\ previewLength = DefaultPreviewLength
    /\ foldCache = EmptyCache
    /\ foldTimer = <<>>
    /\ provides = <<>>
    /\ lastProvide = NoProvide
    /\ large = IdleLarge

InitScan ==
    /\ InitDetector
    /\ docs = [u \in {} |-> None]

\* The caller's cancellation is requested. Detection runs to completion
\* within one turn of the event loop, so a request arrives between calls.
Cancel ==
    /\ scan.pc = "idle"
    /\ ~token
    /\ token' = TRUE
    /\ UNCHANGED <<patterns, scan, detectorVars, previewLength, providerVars>>

NextScan ==
    \/ \E p \in CustomPatterns : RegisterPattern(p)
    \/ \E ps \in {<<>>, << RustDoc >>} : RegisterPatterns("rust", ps)
    \/ /\ scan.pc = "idle"
       /\ \E id \in ScanLanguageIds : \E lines \in TextsOf(id) :
              ScanStart(id, lines)
    \/ ScanStep
    \/ ScanNextPattern
    \/ ScanFinish

SpecScan == InitScan /\ [][NextScan]_vars

\* The scan whose steps are taken whenever they can be: the loops of
\* performDetection run to completion within the call. This is the weak
\* fairness WF_vars(ScanStep \/ ScanNextPattern \/ ScanFinish) with ENABLED
\* written out as the guard the three steps share.
ScanEnabled == scan.pc = "scan"

SpecScanFair ==
    SpecScan /\ ( \/ []<>(~ScanEnabled)
                  \/ []<><<ScanStep \/ ScanNextPattern \/ ScanFinish>>_vars )

\* Python texts of up to MaxStartLines lines, each a docstring start with no
\* closing marker or a line of code.
StartLines == { TripleDouble \o Code, Code }

StartTextsOf == UNION { [1..n -> StartLines] : n \in 1..MaxStartLines }

NextStarts ==
    \/ /\ scan.pc = "idle"
       /\ \E lines \in StartTextsOf : ScanStart("python", lines)
    \/ ScanStep
    \/ ScanNextPattern
    \/ ScanFinish

SpecStarts == InitScan /\ [][NextStarts]_vars

\* Detection of python texts while a caller cancels and while a pattern that
\* throws is registered.
NextGuard ==
    \/ RegisterPattern(FaultyPython)
    \/ Cancel
    \/ /\ scan.pc = "idle"
       /\ \E lines \in TextsOf("python") : ScanStart("python", lines)
    \/ ScanStep
    \/ ScanThrow
    \/ ScanNextPattern
    \/ ScanFinish

SpecGuard == InitScan /\ [][NextGuard]_vars

\* The user sets docufold.previewLength to a valid value.
PreviewLengths == {MinPreviewLength, DefaultPreviewLength, MaxPreviewLength}

UpdateConfiguration(n) ==
    /\ scan.pc = "idle"
    /\ n # previewLength
    /\ previewLength' = n
    /\ UNCHANGED <<patterns, scan, detectorVars, token, providerVars>>

\* Detection of texts with long, blank and tagged docstrings, under each
\* configured preview length.
NextPreview ==
    \/ \E n \in PreviewLengths : UpdateConfiguration(n)
    \/ /\ scan.pc = "idle"
       /\ \E id \in ScanLanguageIds : \E lines \in PreviewTextsOf(id) :
              ScanStart(id, lines)
    \/ ScanStep
    \/ ScanNextPattern
    \/ ScanFinish

SpecPreview == InitScan /\ [][NextPreview]_vars

\* ------------------------------------------------------------ the detector
Put(f, k, v) == [x \in (DOMAIN f) \cup {k} |-> IF x = k THEN v ELSE f[x]]

\* The list performDetection gives for the document as it is now.
ScanOf(uri) ==
    LET language == DetectLanguage(docs[uri].languageId)
    IN  IF language = None THEN <<>>
        ELSE PerformDetection(patterns, docs[uri].lines, language)

\* detectDocstrings(document) up to its await: the language lookup, the cache
\* lookup and, on a miss, the scan of performDetection, which runs before the
\* call suspends; docstrings is the list that scan gives. The list the call
\* returns is settled here; a suspended call carries, as history, how many
\* patterns were registered when it began.
DetectCall(uri, docstrings) ==
    /\ ncalls < MaxCalls
    /\ LET d == docs[uri]
           language == DetectLanguage(d.languageId)
           triple == <<uri, d.version, d.languageId>>
           key == CreateCacheKey(uri, d.version, language)
           looked == language # None
           hit == looked /\ CacheHit(cache, key, now)
           result == IF hit THEN cache[key].value ELSE docstrings
       IN  /\ cache' = IF looked THEN CacheAfterGet(cache, key, now) ELSE cache
           /\ pending' = IF looked /\ ~hit
                         THEN Append(pending, [key |-> key,
                                               docstrings |-> docstrings,
                                               regs |-> RegCount(patterns)])
                         ELSE pending
           /\ lastCall' =
                [called |-> TRUE, uri |-> uri, version |-> d.version,
                 languageId |-> d.languageId, language |-> language,
                 supported |-> GetSupportedLanguages(patterns),
                 result |-> result, fromCache |-> hit,
                 scanned |-> looked /\ ~hit, fresh |-> docstrings,
                 isNew |-> triple \notin DOMAIN history,
                 repeats |-> /\ triple \in DOMAIN history
                             /\ history[triple].regs = RegCount(patterns),
                 previous |-> IF triple \in DOMAIN history
                              THEN history[triple].result ELSE <<>>,
                 afterClear |-> cleared,
                 looked |-> looked, lookedAt |-> now,
                 held |-> looked /\ key \in DOMAIN cache,
                 stored |-> IF looked /\ key \in DOMAIN setAt
                            THEN << setAt[key] >> ELSE <<>>,
                 keyLeft |-> looked /\ key \in DOMAIN cache']
           /\ history' = Put(history, triple,
                             [result |-> result, regs |-> RegCount(patterns)])
    /\ ncalls' = ncalls + 1
    /\ cleared' = "no"
    /\ UNCHANGED <<patterns, scan, docs, now, timer, ticks, setAt, armedAt>>

DetectToAwait(uri) == DetectCall(uri, ScanOf(uri))

\* detectDocstrings(document) called on its own, not by the folding provider.
DetectBegin(uri) == DetectToAwait(uri) /\ UNCHANGED hostVars

\* detectDocstrings after its await: the result is stored and the debounced
\* cleanup is re-armed (clearTimeout, then setTimeout(cleanup, wait)).
DetectAfterAwait ==
    /\ pending # <<>>
    /\ LET c == Head(pending)
       IN  /\ cache' = CacheSet(cache, c.key, c.docstrings, now)
           /\ setAt' = Put(setAt, c.key, [t |-> now, value |-> c.docstrings])
    /\ timer' = << now + CleanupWait >>
    /\ armedAt' = << now >>
    /\ pending' = Tail(pending)
    /\ UNCHANGED <<patterns, scan, docs, now, ticks, ncalls, lastCall,
                   history, cleared>>

DetectResume == DetectAfterAwait /\ UNCHANGED hostVars

\* The timeout of debouncedCacheCleanup fires: this.cache.cleanup().
CleanupFire ==
    /\ timer # <<>>
    /\ now >= timer[1]
    /\ pending = <<>>
    /\ cache' = CacheCleanup(cache, now)
    /\ timer' = <<>>
    /\ UNCHANGED <<patterns, scan, docs, now, pending, ticks, ncalls,
                   lastCall, history, setAt, cleared, armedAt,
                   hostVars>>

\* clearCache()
ClearCache ==
    /\ cache' = CacheClear(cache)
    /\ setAt' = [k \in {} |-> None]
    /\ cleared' = IF pending = <<>> THEN "idle" ELSE "inflight"
    /\ UNCHANGED <<patterns, scan, docs, now, timer, pending, ticks, ncalls,
                   lastCall, history, armedAt,
                   hostVars>>

\* The editor changes a document: new text, next version.
Edit(uri, lines) ==
    /\ pending = <<>>
    /\ docs[uri].version < MaxVersion
    /\ lines # docs[uri].lines
    /\ docs' = [docs EXCEPT ![uri] = [@ EXCEPT !.version = @ + 1,
                                               !.lines = lines]]
    /\ UNCHANGED <<patterns, scan, cache, now, timer, pending, ticks, ncalls,
                   lastCall, history, setAt, cleared, armedAt,
                   hostVars>>

\* Time passes between two turns of the event loop.
Delays == {1, CleanupWait, CacheTtl}

Tick(delay) ==
    /\ pending = <<>>
    /\ ticks < MaxTicks
    /\ now' = now + delay
    /\ ticks' = ticks + 1
    /\ UNCHANGED <<patterns, scan, docs, cache, timer, pending, ncalls,
                   lastCall, history, setAt, cleared, armedAt,
                   hostVars>>

\* The text a document holds when it is opened (version 1).
FirstText(uri) ==
    IF uri = UriF THEN << TripleDouble \o Code, Code \o TripleDouble >>
    ELSE << BlockOpen \o Code \o BlockClose, TripleSlash \o Code >>

OpenDocument(uri, id) ==
    [languageId |-> id, version |-> 1, lines |-> FirstText(uri)]

\* Registry, documents, detection and cache resets, at one instant.
Init ==
    /\ InitDetector
    /\ \E id \in DocLanguageIds(UriF1) :
           docs = [u \in Uris |-> IF u = UriF THEN OpenDocument(u, "python")
                                  ELSE OpenDocument(u, id)]

Next ==
    \/ \E p \in CustomPatterns : RegisterPattern(p)
    \/ \E u \in Uris : DetectBegin(u)
    \/ DetectResume
    \/ ClearCache
    \/ \E u \in Uris : \E lines \in DocTexts(u) : Edit(u, lines)

Spec == Init /\ [][Next]_vars

\* Detection and the cache as time passes, on two unchanging documents.
InitCache ==
    /\ InitDetector
    /\ docs = [u \in Uris |-> IF u = UriF THEN OpenDocument(u, "python")
                              ELSE OpenDocument(u, "plaintext")]

NextCache ==
    \/ \E u \in Uris : DetectBegin(u)
    \/ DetectResume
    \/ CleanupFire
    \/ ClearCache
    \/ \E delay \in Delays : Tick(delay)

SpecCache == InitCache /\ [][NextCache]_vars

\* Detection, the cache and its cleanup timer as time passes, on two
\* unchanging documents of two supported languages.
InitCleanup ==
    /\ InitDetector
    /\ docs = [u \in Uris |-> IF u = UriF THEN OpenDocument(u, "python")
                              ELSE OpenDocument(u, "javascriptreact")]

NextCleanup ==
    \/ \E u \in Uris : DetectBegin(u)
    \/ DetectResume
    \/ CleanupFire
    \/ \E delay \in Delays : Tick(delay)

SpecCleanup == InitCleanup /\ [][NextCleanup]_vars

\* ----------------------------------------------------- the folding provider
\* new vscode.FoldingRange(start.line, end.line, FoldingRangeKind.Comment)
FoldingRange(d) ==
    [start |-> d.startLine, end |-> d.endLine, kind |-> "comment"]

\* A docstring on one line counts as valid.
IsValidFoldingRangeOneLine(lineCount, d) ==
    /\ ~(d.startLine < 0 \/ d.endLine < 0)
    /\ ~(d.startLine >= lineCount \/ d.endLine >= lineCount)
    /\ ~(d.startLine > d.endLine)

\* isValidFoldingRange(document, docstring)
IsValidFoldingRange(lineCount, d) ==
    /\ ~(d.startLine < 0 \/ d.endLine < 0)
    /\ ~(d.startLine >= lineCount \/ d.endLine >= lineCount)
    /\ ~(d.startLine >= d.endLine)
    /\ ~(d.endLine - d.startLine < 1)

\* calculateFoldingRanges(document, docstrings, token): the loop runs within
\* one turn of the event loop, right after the token was found not cancelled.
RECURSIVE CalculateFoldingRanges(_, _)
CalculateFoldingRanges(lineCount, docstrings) ==
    IF docstrings = <<>> THEN <<>>
    ELSE LET d == Head(docstrings)
             rest == CalculateFoldingRanges(lineCount, Tail(docstrings))
         IN  IF d.isSingleLine /\ d.startLine = d.endLine THEN rest
             ELSE IF ~IsValidFoldingRange(lineCount, d) THEN rest
             ELSE << FoldingRange(d) >> \o rest

\* `${document.uri.toString()}-${document.version}`
CreateFoldCacheKey(uri, version) == uri \o <<"-">> \o ToDigits(version)

\* shouldInvalidateCache(document, cached)
ShouldInvalidateCache(cached, t) == t - cached.timestamp > InvalidateAfter

\* The two reads of token.isCancellationRequested in provideFoldingRanges:
\* on entry, and after the await of the detection.
CancelledBeforeDetection(tok) == tok

NeverCancelled(tok) == FALSE

CancelledAfterDetection(tok) == tok

\* provideFoldingRanges(document, context, token) up to its await of
\* detectDocstrings, whose synchronous part runs within the same turn; fresh
\* tells that the token is one made for this call, which nobody cancels
\* (getFoldingRangesForDocument). Returns made here are recorded in
\* lastProvide; scan is history, the list a scan of the document gives when
\* the call begins.
ProvideBegin(uri, fresh) ==
    /\ large.pc = "idle"
    /\ LET d == docs[uri]
           key == CreateFoldCacheKey(uri, d.version)
           called == [NoProvide EXCEPT !.returned = TRUE, !.uri = uri,
                                       !.version = d.version,
                                       !.languageId = d.languageId]
       IN  IF ~fresh /\ CancelledBeforeDetection(token)
           THEN /\ lastProvide' = [called EXCEPT !.cancelled = "before"]
                /\ UNCHANGED <<foldCache, provides, cache, pending, ncalls,
                               lastCall, history, cleared>>
           ELSE IF /\ CacheHit(foldCache, key, now)
                   /\ ~ShouldInvalidateCache(foldCache[key].value, now)
           THEN /\ lastProvide' =
                     [called EXCEPT !.fromCache = TRUE,
                         !.ranges = foldCache[key].value.ranges,
                         !.docstrings = foldCache[key].value.docstrings,
                         !.scan = ScanOf(uri)]
                /\ UNCHANGED <<foldCache, provides, cache, pending, ncalls,
                               lastCall, history, cleared>>
           ELSE /\ foldCache' = CacheAfterGet(foldCache, key, now)
                /\ DetectToAwait(uri)
                /\ provides' = Append(provides,
                       [uri |-> uri, key |-> key, version |-> d.version,
                        languageId |-> d.languageId,
                        lineCount |-> Len(d.lines), fresh |-> fresh,
                        suspended |-> lastCall'.scanned,
                        docstrings |-> lastCall'.result,
                        scan |-> lastCall'.fresh])
                /\ UNCHANGED lastProvide
    /\ UNCHANGED <<patterns, scan, docs, now, timer, ticks, setAt, armedAt,
                   token, previewLength, foldTimer, large>>

\* provideFoldingRanges after the await: detectDocstrings, if it was
\* suspended too, stores its list first; then the token is read again, the
\* ranges are calculated and stored, and the debounced cleanup is re-armed.
ProvideResume ==
    /\ provides # <<>>
    /\ LET c == Head(provides)
           ranges == CalculateFoldingRanges(c.lineCount, c.docstrings)
           called == [NoProvide EXCEPT !.returned = TRUE, !.uri = c.uri,
                                       !.version = c.version,
                                       !.languageId = c.languageId,
                                       !.detected = TRUE,
                                       !.docstrings = c.docstrings,
                                       !.scan = c.scan]
       IN  /\ IF c.suspended THEN DetectAfterAwait
              ELSE UNCHANGED <<cache, setAt, timer, armedAt, pending>>
           /\ IF ~c.fresh /\ CancelledAfterDetection(token)
              THEN /\ lastProvide' = [called EXCEPT !.cancelled = "after"]
                   /\ UNCHANGED <<foldCache, foldTimer>>
              ELSE /\ foldCache' =
                        CacheSet(foldCache, c.key,
                                 [ranges |-> ranges,
                                  docstrings |-> c.docstrings,
                                  timestamp |-> now], now)
                   /\ foldTimer' = << now + FoldCleanupWait >>
                   /\ lastProvide' = [called EXCEPT !.ranges = ranges]
    /\ provides' = Tail(provides)
    /\ UNCHANGED <<patterns, scan, docs, now, ticks, ncalls, lastCall,
                   history, cleared, token, previewLength, large>>

\* The timeout of the provider's debounced cleanup fires.
FoldCleanupFire ==
    /\ foldTimer # <<>>
    /\ now >= foldTimer[1]
    /\ provides = <<>>
    /\ large.pc \in {"idle", "sleep"}
    /\ foldCache' = CacheCleanup(foldCache, now)
    /\ foldTimer' = <<>>
    /\ UNCHANGED <<patterns, scan, detectorVars, token, previewLength,
                   provides, lastProvide, large>>

\* The ranges one chunk adds to allRanges: of the docstrings that start at
\* or after startLine and end before endLine, those valid for folding.
RECURSIVE ChunkRanges(_, _, _, _)
ChunkRanges(lineCount, docstrings, startLine, endLine) ==
    IF docstrings = <<>> THEN <<>>
    ELSE LET d == Head(docstrings)
             rest == ChunkRanges(lineCount, Tail(docstrings), startLine,
                                 endLine)
         IN  IF d.startLine >= startLine /\ d.endLine < endLine
                /\ IsValidFoldingRange(lineCount, d)
             THEN << FoldingRange(d) >> \o rest
             ELSE rest

Min(a, b) == IF a <= b THEN a ELSE b

\* Math.ceil(lineCount / chunkSize)
TotalChunks(lineCount, chunkSize) == (lineCount + chunkSize - 1) \div chunkSize

\* processLargeFile(document, chunkSize) on a document longer than a chunk,
\* up to the await of the first chunk's detection.
LargeBegin(uri, chunkSize) ==
    /\ large.pc = "idle"
    /\ provides = <<>>
    /\ pending = <<>>
    /\ Len(docs[uri].lines) > chunkSize
    /\ DetectToAwait(uri)
    /\ large' = [pc |-> "await", uri |-> uri, chunkSize |-> chunkSize,
                 i |-> 0,
                 totalChunks |-> TotalChunks(Len(docs[uri].lines), chunkSize),
                 lineCount |-> Len(docs[uri].lines), allRanges |-> <<>>,
                 docstrings |-> lastCall'.result,
                 suspended |-> lastCall'.scanned, returned |-> FALSE]
    /\ UNCHANGED <<token, previewLength, foldCache, foldTimer, provides,
                   lastProvide>>

\* processLargeFile(document, chunkSize): a document no longer than a chunk
\* goes to getFoldingRangesForDocument, a provideFoldingRanges call with a
\* token of its own.
ProcessLargeFile(uri, chunkSize) ==
    IF Len(docs[uri].lines) <= chunkSize THEN ProvideBegin(uri, TRUE)
    ELSE LargeBegin(uri, chunkSize)

\* The chunk's detection has returned: its docstrings are filtered to the
\* chunk and converted, and the call sleeps for a millisecond.
LargeChunk ==
    /\ large.pc = "await"
    /\ IF large.suspended THEN DetectAfterAwait
       ELSE UNCHANGED <<patterns, scan, detectorVars>>
    /\ large' = [large EXCEPT
           !.pc = "sleep",
           !.allRanges = @ \o ChunkRanges(large.lineCount, large.docstrings,
                                 large.i * large.chunkSize,
                                 Min((large.i + 1) * large.chunkSize,
                                     large.lineCount))]
    /\ UNCHANGED <<token, previewLength, foldCache, foldTimer, provides,
                   lastProvide>>

\* The sleep is over: the next chunk's detection begins, or the call returns
\* allRanges after the last chunk.
LargeNext ==
    /\ large.pc = "sleep"
    /\ provides = <<>>
    /\ IF large.i + 1 < large.totalChunks
       THEN /\ DetectToAwait(large.uri)
            /\ large' = [large EXCEPT !.pc = "await", !.i = @ + 1,
                                      !.docstrings = lastCall'.result,
                                      !.suspended = lastCall'.scanned]
       ELSE /\ large' = [large EXCEPT !.pc = "idle", !.returned = TRUE]
            /\ UNCHANGED <<patterns, scan, detectorVars>>
    /\ UNCHANGED <<token, previewLength, foldCache, foldTimer, provides,
                   lastProvide>>

\* The language mode of a document is changed: same identity, same version.
ChangeLanguage(uri, id) ==
    /\ pending = <<>>
    /\ provides = <<>>
    /\ large.pc = "idle"
    /\ id # docs[uri].languageId
    /\ docs' = [docs EXCEPT ![uri] = [@ EXCEPT !.languageId = id]]
    /\ UNCHANGED <<patterns, scan, cache, now, timer, pending, ticks, ncalls,
                   lastCall, history, setAt, cleared, armedAt, hostVars>>

\* The documents the provider is asked about: one that holds a one-line
\* docstring and a docstring of two lines, one that holds a docstring of
\* three lines, one whose only docstring line is a lone marker.
ProviderTexts ==
    { << TripleDouble \o Code \o TripleDouble, TripleDouble \o Code,
         Code \o TripleDouble >>,
      << TripleDouble \o Code, Code, Code \o TripleDouble >>,
      << Code, TripleDouble >> }

ProviderLanguageIds == {"python", "javascript"}

ChunkSizes == 1..MaxChunkSize

InitProvider ==
    /\ InitDetector
    /\ \E lines \in ProviderTexts :
          docs = [u \in {UriF} |->
                     [languageId |-> "python", version |-> 1, lines |-> lines]]

NextProvider ==
    \/ ProvideBegin(UriF, FALSE)
    \/ ProvideResume
    \/ \E chunkSize \in ChunkSizes : ProcessLargeFile(UriF, chunkSize)
    \/ LargeChunk
    \/ LargeNext
    \/ Cancel
    \/ \E id \in ProviderLanguageIds : ChangeLanguage(UriF, id)
    \/ /\ provides = <<>>
       /\ large.pc \in {"idle", "sleep"}
       /\ \E delay \in {1, InvalidateAfter} : Tick(delay)
    \/ FoldCleanupFire

SpecProvider == InitProvider /\ [][NextProvider]_vars

\* ================================================================= claims
\* ------------------------------------------------------------------ C1
\* C1: every docstring returned by detection has startLine <= endLine and
\* isSingleLine true exactly when startLine = endLine.
C1_BoundaryInvariant ==
    scan.pc = "done" =>
        \A k \in 1..Len(scan.result) :
            LET d == scan.result[k]
            IN  /\ d.startLine <= d.endLine
                /\ d.isSingleLine <=> (d.startLine = d.endLine)

\* ------------------------------------------------------------------ C2
\* A python text made of an opening line, body lines without markers and
\* a closing line.
OpeningLines == {TripleDouble, Indent(TripleDouble), TripleDouble \o Code}
ClosingLines == {TripleDouble, Indent(TripleDouble), Code \o TripleDouble}
IsDelimitedDocstring(lines) ==
    /\ Len(lines) >= 2
    /\ lines[1] \in OpeningLines
    /\ lines[Len(lines)] \in ClosingLines
    /\ \A k \in 2..(Len(lines) - 1) : lines[k] \in {<<>>, Code}

\* C2: a triple-quoted docstring that opens on one line and closes on a
\* later line is reported as exactly one block from the opening line to the
\* closing line with isSingleLine = FALSE, also when the markers stand alone.
C2_OneBlockPerDelimitedDocstring ==
    ( /\ scan.pc = "done"
      /\ scan.language = "python"
      /\ patterns = InitializePatterns
      /\ IsDelimitedDocstring(scan.lines) )
    => /\ Len(scan.result) = 1
       /\ scan.result[1].startLine = 0
       /\ scan.result[1].endLine = Len(scan.lines) - 1
       /\ scan.result[1].isSingleLine = FALSE

\* ------------------------------------------------------------------ C3
\* The pass is at a line that passes the start matcher while no line from
\* it to the end of the file passes the end matcher.
AtUnterminatedStart(sc) ==
    /\ sc.pc = "scan"
    /\ sc.i < Len(sc.lines)
    /\ sc.patterns[sc.pidx].multiline
    /\ StartPatternMatches(sc.lines[sc.i + 1], sc.patterns[sc.pidx].startPattern)
    /\ \A j \in (sc.i + 1)..Len(sc.lines) :
           ~EndPatternTest(sc.lines[j], sc.patterns[sc.pidx].endPattern)

\* C3: in a multiline pass, a start line with no closing line up to the end
\* of the file emits no block, the cursor moves to i + 1 and the pass goes on.
C3_UnterminatedDropped ==
    [][ AtUnterminatedStart(scan) =>
            /\ scan'.i = scan.i + 1
            /\ scan'.docstrings = scan.docstrings
            /\ scan'.pc = "scan"
            /\ scan'.pidx = scan.pidx ]_vars

\* The cursor stands right after an unterminated start line that is followed
\* by more lines, and nothing was emitted for it.
C3_Witness ==
    /\ scan.pc = "scan"
    /\ scan.i >= 1
    /\ scan.i < Len(scan.lines)
    /\ AtUnterminatedStart([scan EXCEPT !.i = scan.i - 1])
    /\ \A k \in 1..Len(scan.docstrings) :
           scan.docstrings[k].startLine # scan.i - 1

\* ------------------------------------------------------------------ C4
Tuple(d) == <<d.startLine, d.startColumn, d.endLine, d.endColumn>>

\* The candidates that no earlier candidate equals in its tuple, in order.
RECURSIVE FirstOccurrences(_, _)
FirstOccurrences(ds, k) ==
    IF k > Len(ds) THEN <<>>
    ELSE (IF \E j \in 1..(k - 1) : Tuple(ds[j]) = Tuple(ds[k])
          THEN <<>> ELSE << ds[k] >>)
         \o FirstOccurrences(ds, k + 1)

Overlap(a, b) == a.startLine <= b.endLine /\ b.startLine <= a.endLine

\* C4: de-duplication keeps exactly the first occurrence of each
\* (startLine, startColumn, endLine, endColumn) tuple: the result has no two
\* blocks with the same tuple, and a candidate is dropped only when an
\* earlier candidate has the identical tuple.
C4_DedupFirstOccurrence ==
    scan.pc = "done" =>
        /\ scan.result = FirstOccurrences(scan.docstrings, 1)
        /\ \A j, k \in 1..Len(scan.result) :
               Tuple(scan.result[j]) = Tuple(scan.result[k]) => j = k

\* A duplicate was dropped and two overlapping blocks with different tuples
\* were both kept.
C4_Witness ==
    /\ scan.pc = "done"
    /\ Len(scan.result) < Len(scan.docstrings)
    /\ \E j, k \in 1..Len(scan.result) :
           /\ j # k
           /\ Overlap(scan.result[j], scan.result[k])
           /\ Tuple(scan.result[j]) # Tuple(scan.result[k])

C6_DetectEqualsFreshScan ==
    lastCall.called => lastCall.result = lastCall.fresh

\* ------------------------------------------------------------------ C7
\* C7: two detect calls on the same document (identity, revision, text,
\* language) with no registry change in between return equal lists.
C7_RepeatedDetectEqual ==
    (lastCall.called /\ lastCall.repeats)
    => lastCall.result = lastCall.previous

\* ------------------------------------------------------------------ C8
\* C8 as stated: a detect whose (identity, revision, language id) differs
\* from every earlier call is not served from the cache and scans afresh.
C8_NewTripleFreshScan ==
    (lastCall.called /\ lastCall.isNew)
    => (~lastCall.fromCache /\ lastCall.scanned)

\* C8, amended: such a detect is never served from the cache, and it scans
\* afresh whenever LANGUAGE_MAP maps its language id.
C8_NewTripleNeverCached ==
    (lastCall.called /\ lastCall.isNew)
    => /\ ~lastCall.fromCache
       /\ lastCall.languageId \in LanguageIds => lastCall.scanned

\* The second revision of a document was detected for the first time while
\* the cache held the list of its first revision.
C8_Witness ==
    /\ lastCall.called
    /\ lastCall.isNew
    /\ lastCall.version > 1
    /\ lastCall.scanned
    /\ CreateCacheKey(lastCall.uri, 1, lastCall.language) \in DOMAIN cache

\* ------------------------------------------------------------------ C9
\* C9 as stated: get(key) returns the stored value exactly when the key was
\* set at t, not cleared since, and now - t < ttl.
C9_GetIffYoungerThanTtl ==
    lastCall.looked =>
        ( lastCall.fromCache <=>
            /\ lastCall.stored # <<>>
            /\ lastCall.lookedAt - lastCall.stored[1].t < CacheTtl )

\* C9, amended: get(key) returns the stored value exactly when the key was
\* set at t, not cleared since, and now - t <= ttl; otherwise it returns
\* nothing and the key is not in the cache after the lookup.
C9_GetIffNotPastTtl ==
    lastCall.looked =>
        /\ lastCall.fromCache <=>
             ( /\ lastCall.stored # <<>>
               /\ lastCall.lookedAt - lastCall.stored[1].t <= CacheTtl )
        /\ lastCall.fromCache => lastCall.result = lastCall.stored[1].value
        /\ ~lastCall.fromCache => ~lastCall.keyLeft

\* A lookup found an entry past its TTL, returned nothing and removed it.
C9_Witness ==
    /\ lastCall.looked
    /\ lastCall.held
    /\ lastCall.stored # <<>>
    /\ lastCall.lookedAt - lastCall.stored[1].t > CacheTtl
    /\ ~lastCall.fromCache
    /\ ~lastCall.keyLeft

\* ------------------------------------------------------------------ C10
\* C10 as stated: a detect on a mapped document leaves an entry in the
\* cache; clearCache() leaves none; the first detect after clearCache(), on
\* any document, is a miss that scans.
C10_ClearThenMiss ==
    [][ /\ DetectResume => CacheSize(cache') >= 1
        /\ ((\E u \in Uris : DetectBegin(u)) /\ lastCall'.fromCache)
               => CacheSize(cache') >= 1
        /\ ClearCache => CacheSize(cache') = 0
        /\ ((\E u \in Uris : DetectBegin(u)) /\ cleared # "no")
               => (~lastCall'.fromCache /\ lastCall'.scanned) ]_vars

\* C10, amended: as stated, but the first detect after clearCache() is a miss
\* that scans when its language id is mapped and no detect call was
\* suspended at its await while clearCache() ran.
C10_ClearThenMissWhenIdle ==
    [][ /\ DetectResume => CacheSize(cache') >= 1
        /\ ((\E u \in Uris : DetectBegin(u)) /\ lastCall'.fromCache)
               => CacheSize(cache') >= 1
        /\ ClearCache => CacheSize(cache') = 0
        /\ ((\E u \in Uris : DetectBegin(u)) /\ cleared = "idle")
               => /\ ~lastCall'.fromCache
                  /\ lastCall'.looked => lastCall'.scanned ]_vars

\* A document detected before was detected again right after clearCache()
\* and was scanned again.
C10_Witness ==
    /\ lastCall.called
    /\ lastCall.afterClear = "idle"
    /\ ~lastCall.isNew
    /\ lastCall.looked
    /\ lastCall.scanned

\* ------------------------------------------------------------------ C11
\* C11: once the cancellation signal is set, detection starts no further
\* pattern pass.
C11_NoPassAfterCancel ==
    [][ token => ~( /\ scan'.pc = "scan"
                    /\ (scan.pc # "scan" \/ scan'.pidx # scan.pidx) ) ]_vars

\* ------------------------------------------------------------------ C12
\* The blocks a pattern finds on its own, when scanning with it throws
\* nowhere.
ThrowsSomewhere(lines, pattern) ==
    \E i \in 0..(Len(lines) - 1) : StepThrows(lines, pattern, i)

\* C12: a pattern that throws does not end detection with the exception,
\* and the list returned holds the blocks of the other patterns of the
\* language.
C12_FaultContained ==
    /\ scan.pc # "threw"
    /\ scan.pc = "done" =>
          \A k \in 1..Len(scan.patterns) :
              ~ThrowsSomewhere(scan.lines, scan.patterns[k]) =>
                  LET found == PatternPass(scan.lines, scan.language,
                                           scan.patterns[k], 0)
                  IN  \A j \in 1..Len(found) :
                          \E r \in 1..Len(scan.result) :
                              Tuple(scan.result[r]) = Tuple(found[j])

\* ------------------------------------------------------------------ C13
\* C13: registerPattern(p) appends p to the list of p.language, which grows
\* by one with the earlier patterns in place, and leaves the lists of all
\* other languages as they were.
C13_RegisterPatternAppends ==
    [][ \A p \in CustomPatterns :
            RegisterPattern(p) =>
                /\ GetPatterns(patterns', p.language)
                       = Append(GetPatterns(patterns, p.language), p)
                /\ Len(GetPatterns(patterns', p.language))
                       = Len(GetPatterns(patterns, p.language)) + 1
                /\ \A l \in (DOMAIN patterns) \cup (DOMAIN patterns') :
                       l # p.language =>
                           GetPatterns(patterns', l) = GetPatterns(patterns, l)
      ]_vars

\* A pattern was registered for a language that had patterns already.
C13_Witness ==
    /\ Len(patterns["python"]) = 3
    /\ patterns["python"][3] = LoosePython
    /\ SubSeq(patterns["python"], 1, 2) = InitializePatterns["python"]

\* ------------------------------------------------------------------ C14
\* The languages the registry was ever asked about.
RegistryLanguages ==
    (DOMAIN InitializePatterns) \cup {"rust", "go"}

\* C14: a language is in getSupportedLanguages() exactly when
\* isLanguageSupported holds for it, exactly when getPatterns is non-empty.
C14_SupportedIffHasPatterns ==
    \A l \in RegistryLanguages :
        /\ (l \in GetSupportedLanguages(patterns))
               <=> IsLanguageSupported(patterns, l)
        /\ IsLanguageSupported(patterns, l)
               <=> (GetPatterns(patterns, l) # <<>>)

\* ------------------------------------------------------------------ C15
\* C15: once a pattern is registered for a language that had none, detect on
\* a document declared with that language id returns what the pattern
\* matches in its text.
C15_NewLanguageDetected ==
    [][ \A u \in Uris :
            ( /\ DetectBegin(u)
              /\ docs[u].languageId \notin DOMAIN InitializePatterns
              /\ GetPatterns(patterns, docs[u].languageId) # <<>> )
            => /\ ~lastCall'.fromCache
               /\ lastCall'.result = PerformDetection(patterns, docs[u].lines,
                                                      docs[u].languageId) ]_vars

\* ------------------------------------------------------------------ C16
\* The text an extractor selects before the length limit is applied.
SelectedText(content, language) ==
    CASE language = "python" -> PythonPreviewText(content)
      [] language = "csharp" -> CSharpPreviewText(content)
      [] OTHER -> BlockCommentPreviewText(content)

\* C16: a preview is at most 60 long; a selected text longer than 60 gives
\* a preview of exactly 60: its first 57 characters and "..."; a shorter
\* one is the preview unchanged.
C16_PreviewLimit ==
    \A k \in 1..Len(scan.docstrings) :
        LET d == scan.docstrings[k]
            sel == SelectedText(d.content, d.language)
        IN  /\ Len(d.preview) <= 60
            /\ (Trim(sel) # <<>> /\ Len(sel) > 60) =>
                   /\ Len(d.preview) = 60
                   /\ SubSeq(d.preview, 1, 57) = SubSeq(sel, 1, 57)
                   /\ SubSeq(d.preview, 58, 60) = <<".", ".", ".">>
            /\ (Trim(sel) # <<>> /\ Len(sel) <= 60) => d.preview = sel

\* One detection returned a block whose selected text of 61 characters was
\* cut and a block whose selected text of 60 characters was kept.
C16_Witness ==
    /\ scan.pc = "done"
    /\ \E k \in 1..Len(scan.result) :
           /\ Len(SelectedText(scan.result[k].content,
                               scan.result[k].language)) = 61
           /\ Len(scan.result[k].preview) = 60
    /\ \E k \in 1..Len(scan.result) :
           /\ Len(SelectedText(scan.result[k].content,
                               scan.result[k].language)) = 60
           /\ scan.result[k].preview = Digits(60)

\* ------------------------------------------------------------------ C17
\* C17: every preview is at most the configured previewLength long.
C17_ConfiguredPreviewLength ==
    scan.pc = "done" =>
        \A k \in 1..Len(scan.result) :
            Len(scan.result[k].preview) <= previewLength

\* ------------------------------------------------------------------ C18
\* The marker tokens of a language, and whether a content has no text left
\* once they and the leading * of each line are taken away.
MarkerTokens(language) ==
    CASE language = "python" -> << TripleDouble, TripleSingle >>
      [] language = "csharp" -> << TripleSlash >>
      [] OTHER -> << BlockOpen, BlockClose >>

NoTextLeft(content, language) ==
    LET lines == Split(RemoveAll(content, MarkerTokens(language)))
    IN  \A k \in 1..Len(lines) :
            Trim(IF language \in {"python", "csharp"} THEN lines[k]
                 ELSE StripLeadingStar(lines[k])) = <<>>

FallbackLabel(language) ==
    IF language = "python" THEN DocstringLabel ELSE DocumentationLabel

\* C18: a block with no text besides its markers has the fallback label of
\* its language as preview.
C18_FallbackWhenBlank ==
    scan.pc = "done" =>
        \A k \in 1..Len(scan.result) :
            LET d == scan.result[k]
            IN  NoTextLeft(d.content, d.language)
                    => d.preview = FallbackLabel(d.language)

\* ------------------------------------------------------------------ C19
\* A block of /// lines, a tag in a string, and the text wrapped by the first
\* <summary> ... </summary> of a content, across lines.
IsXmlDocBlock(d) ==
    /\ d.language = "csharp"
    /\ LET lines == Split(d.content)
       IN  \A k \in 1..Len(lines) : StartPatternMatches(lines[k], TripleSlash)

HasTag(s) ==
    \E a \in 1..Len(s) : \E b \in (a + 1)..Len(s) : s[a] = "<" /\ s[b] = ">"

WrappedSummary(content) ==
    Trim(SummaryMatch(RemoveAll(content, << TripleSlash >>)))

\* C19: the preview of a /// block holds no tag, and when the block wraps a
\* one-line text in <summary> the preview is that text.
C19_SummaryPreview ==
    scan.pc = "done" =>
        \A k \in 1..Len(scan.result) :
            LET d == scan.result[k]
                text == WrappedSummary(d.content)
            IN  IsXmlDocBlock(d) =>
                    /\ ~HasTag(d.preview)
                    /\ ( /\ text # <<>>
                         /\ Len(text) <= 60
                         /\ \A j \in 1..Len(text) : text[j] # Newline )
                       => d.preview = text

\* ------------------------------------------------------------------ C20
\* The number of whitespace characters a line starts with.
Indentation(line) == Len(line) - Len(TrimStart(line))

\* C20: a block's startColumn is the indentation of its start line.
C20_StartColumnIsIndentation ==
    scan.pc = "done" =>
        \A k \in 1..Len(scan.result) :
            LET d == scan.result[k]
            IN  d.startColumn = Indentation(scan.lines[d.startLine + 1])

\* ------------------------------------------------------------------ C21
\* One Comment range per block that ends on a later line than it starts on,
\* in the order of the list; none for the other blocks.
RECURSIVE MultiLineRanges(_)
MultiLineRanges(ds) ==
    IF ds = <<>> THEN <<>>
    ELSE (IF Head(ds).endLine > Head(ds).startLine
          THEN << [start |-> Head(ds).startLine, end |-> Head(ds).endLine,
                   kind |-> "comment"] >>
          ELSE <<>>)
         \o MultiLineRanges(Tail(ds))

\* C21 as stated: provideFoldingRanges returns exactly one Comment range for
\* each detected block with endLine > startLine, in detection order, none for
\* a block on a single line, and every range has start < end.
C21_OneRangePerMultiLineBlock ==
    lastProvide.returned =>
        /\ lastProvide.ranges = MultiLineRanges(lastProvide.docstrings)
        /\ \A k \in 1..Len(lastProvide.ranges) :
              lastProvide.ranges[k].start < lastProvide.ranges[k].end

\* C21, amended: the same, for every call that does not find its token
\* cancelled; the blocks are those of the detection the ranges were
\* calculated from, at this call or at the call that stored the served cache
\* entry.
C21_OneRangePerMultiLineBlockUnlessCancelled ==
    (lastProvide.returned /\ lastProvide.cancelled = "no") =>
        /\ lastProvide.ranges = MultiLineRanges(lastProvide.docstrings)
        /\ \A k \in 1..Len(lastProvide.ranges) :
              lastProvide.ranges[k].start < lastProvide.ranges[k].end

\* A call that detected returned one range for a list that holds a block on
\* one line and a block of several lines.
C21_Witness ==
    /\ lastProvide.returned
    /\ lastProvide.cancelled = "no"
    /\ lastProvide.detected
    /\ Len(lastProvide.ranges) = 1
    /\ \E k \in 1..Len(lastProvide.docstrings) :
          lastProvide.docstrings[k].endLine = lastProvide.docstrings[k].startLine

\* ------------------------------------------------------------------ C22
\* C22: a call whose token is already cancelled returns [] without calling
\* the detection (no detectDocstrings call, detector cache untouched) and
\* without touching the folding-range cache; a call that finds its token
\* cancelled after the detection returns [] and stores no entry in the
\* folding-range cache.
C22_CancelledStoresNothing ==
    [][ /\ (token /\ ProvideBegin(UriF, FALSE)) =>
              /\ lastProvide'.returned
              /\ lastProvide'.ranges = <<>>
              /\ ncalls' = ncalls
              /\ lastCall' = lastCall
              /\ cache' = cache
              /\ pending' = pending
              /\ provides' = provides
              /\ foldCache' = foldCache
              /\ foldTimer' = foldTimer
        /\ (token /\ provides # <<>> /\ ~Head(provides).fresh /\ ProvideResume)
             => /\ lastProvide'.returned
                /\ lastProvide'.ranges = <<>>
                /\ foldCache' = foldCache
                /\ foldTimer' = foldTimer ]_vars

\* A call found its token cancelled after a detection that gave blocks; the
\* folding-range cache holds nothing under its key.
C22_Witness ==
    /\ lastProvide.returned
    /\ lastProvide.cancelled = "after"
    /\ MultiLineRanges(lastProvide.docstrings) # <<>>
    /\ CreateFoldCacheKey(lastProvide.uri, lastProvide.version)
           \notin DOMAIN foldCache

\* ------------------------------------------------------------------ C23
Elements(s) == {s[k] : k \in 1..Len(s)}

\* C23: processLargeFile on a document longer than the chunk size returns
\* the set of ranges provideFoldingRanges returns for it, the range of every
\* block of several lines exactly once, also of a block that spans a chunk
\* boundary.
C23_ChunkedEqualsWhole ==
    large.returned =>
        /\ Elements(large.allRanges)
             = Elements(MultiLineRanges(large.docstrings))
        /\ Len(large.allRanges) = Cardinality(Elements(large.allRanges))

\* ------------------------------------------------------------------ C24
\* C24: one pattern pass over n lines performs a number of line tests (start
\* tests plus end-search tests) bounded by a constant multiple of n, here
\* LinearFactor * n, also on a text with many start lines that have no
\* closing line.
C24_LinearLineTests ==
    scan.pc = "scan" => scan.tests <= LinearFactor * Len(scan.lines)

\* ------------------------------------------------------------------ C25
\* The first pattern, in registration order, whose pass pushed a docstring
\* with the boundaries of d.
FirstProducer(d) ==
    LET ks == {k \in 1..Len(scan.docstrings) :
                  Tuple(scan.docstrings[k]) = Tuple(d)}
        first == CHOOSE k \in ks : \A j \in ks : k <= j
    IN  scan.pass[first]

\* C25: in the list a detection returns, the blocks of an earlier-registered
\* pattern come before the blocks only a later-registered pattern produced,
\* and the blocks of one pattern are in strictly increasing start-line order
\* with no overlap: each starts after the line the previous one ends on. The
\* same order holds, pass by pass, in the list the passes push to.
C25_RegistrationThenLineOrder ==
    /\ \A a, b \in 1..Len(scan.docstrings) :
          a < b =>
             /\ scan.pass[a] <= scan.pass[b]
             /\ scan.pass[a] = scan.pass[b] =>
                   scan.docstrings[b].startLine > scan.docstrings[a].endLine
    /\ scan.pc = "done" =>
          \A a, b \in 1..Len(scan.result) :
             a < b =>
                /\ FirstProducer(scan.result[a]) <= FirstProducer(scan.result[b])
                /\ FirstProducer(scan.result[a]) = FirstProducer(scan.result[b])
                      => scan.result[b].startLine > scan.result[a].endLine

\* A detection returned two blocks of one pattern followed by a block of a
\* later pattern that starts on an earlier line.
C25_Witness ==
    /\ scan.pc = "done"
    /\ \E a, b, c \in 1..Len(scan.result) :
          /\ a < b /\ b < c
          /\ FirstProducer(scan.result[a]) = FirstProducer(scan.result[b])
          /\ FirstProducer(scan.result[b]) < FirstProducer(scan.result[c])
          /\ scan.result[c].startLine < scan.result[b].startLine

\* ------------------------------------------------------------------ C26
\* Line number n (from 0) of the scanned text matches the per-line pattern
\* of the current pass: it is non-empty and passes the start matcher.
RunLine(n) ==
    /\ n >= 0
    /\ n < Len(scan.lines)
    /\ scan.lines[n + 1] # <<>>
    /\ StartPatternMatches(scan.lines[n + 1],
                           scan.patterns[scan.pidx].startPattern)

\* A pass of a per-line pattern is running, as the first pass of the scan,
\* so the pushed list holds the blocks of this pass and no others.
PerLinePass ==
    /\ scan.pc = "scan"
    /\ ~scan.patterns[scan.pidx].multiline
    /\ scan.pidx = 1

\* C26: for a per-line pattern the blocks pushed are exactly the maximal runs
\* of consecutive matching lines. Over the lines the cursor has passed, every
\* matching line lies in exactly one block, no block holds a line that does
\* not match, a block begins where the line before does not match and ends
\* where the line after does not, so no two blocks are adjacent; the cursor
\* stands after the last run, and a block is marked single-line exactly when
\* its run is one line long.
C26_MaximalRuns ==
    PerLinePass =>
        LET ds == scan.docstrings
        IN  /\ \A n \in 0..(scan.i - 1) :
                  RunLine(n) <=>
                      \E k \in 1..Len(ds) :
                          ds[k].startLine <= n /\ n <= ds[k].endLine
            /\ \A n \in 0..(scan.i - 1) :
                  Cardinality({k \in 1..Len(ds) :
                      ds[k].startLine <= n /\ n <= ds[k].endLine}) <= 1
            /\ \A k \in 1..Len(ds) :
                  /\ ds[k].startLine <= ds[k].endLine
                  /\ ds[k].endLine < scan.i
                  /\ ~RunLine(ds[k].startLine - 1)
                  /\ ~RunLine(ds[k].endLine + 1)
                  /\ ds[k].isSingleLine <=> (ds[k].startLine = ds[k].endLine)
            /\ \A k \in 1..(Len(ds) - 1) :
                  ds[k + 1].startLine > ds[k].endLine + 1
            /\ scan.i <= Len(scan.lines)

\* A per-line pass is over: it pushed a run of several lines, and it passed
\* a line that does not match.
C26_Witness ==
    /\ PerLinePass
    /\ scan.i = Len(scan.lines)
    /\ \E k \in 1..Len(scan.docstrings) :
          scan.docstrings[k].endLine > scan.docstrings[k].startLine
    /\ \E n \in 0..(Len(scan.lines) - 1) : ~RunLine(n)

\* ------------------------------------------------------------------ C27
\* The docstrings one iteration pushed.
Emitted == SubSeq(scan'.docstrings, Len(scan.docstrings) + 1,
                  Len(scan'.docstrings))

\* C27: every pattern pass terminates. Each iteration of the outer loop
\* moves the cursor strictly forward and never past the end of the lines: by
\* one when it pushes nothing (an empty line, a line that does not match, an
\* unterminated start) and to the line after the block's last line when it
\* pushes a block, whose end search never ends before its start line; so a
\* scan that has begun always reaches its return.
C27_PassTerminates ==
    /\ [](scan.pc = "scan" /\ scan.i < Len(scan.lines)
            /\ ~StepThrows(scan.lines, scan.patterns[scan.pidx], scan.i)
          => PatternStep(scan.lines, scan.language,
                         scan.patterns[scan.pidx], scan.i).i > scan.i)
    /\ [][ScanStep =>
            /\ scan'.i > scan.i
            /\ scan'.i <= Len(scan.lines)
            /\ Len(Emitted) <= 1
            /\ Emitted = <<>> => scan'.i = scan.i + 1
            /\ Emitted # <<>> =>
                  /\ Emitted[1].startLine = scan.i
                  /\ Emitted[1].endLine >= scan.i
                  /\ scan'.i = Emitted[1].endLine + 1]_vars
    /\ (scan.pc = "scan") ~> (scan.pc = "done")

\* A scan has returned after a pass jumped over a block of several lines and
\* after a pass stepped over a start line with no end.
C27_Witness ==
    /\ scan.pc = "done"
    /\ \E k \in 1..Len(scan.docstrings) :
          scan.docstrings[k].endLine > scan.docstrings[k].startLine
    /\ \E i \in 0..(Len(scan.lines) - 1) :
          /\ scan.patterns[1].multiline
          /\ scan.lines[i + 1] # <<>>
          /\ StartPatternMatches(scan.lines[i + 1],
                                 scan.patterns[1].startPattern)
          /\ FindEndLine(scan.lines, scan.patterns[1], i) = Len(scan.lines)

\* ------------------------------------------------------------------ C28
\* Cache c2 is cache c1 but for what it holds under key.
SameButAt(c1, c2, key) ==
    \A k \in ((DOMAIN c1) \cup (DOMAIN c2)) \ {key} :
        k \in DOMAIN c1 /\ k \in DOMAIN c2 /\ c2[k] = c1[k]

\* Two detections of one key are suspended together: the second began before
\* the first stored its list.
Interleaved(a, b) ==
    /\ a \in 1..Len(pending) /\ b \in 1..Len(pending)
    /\ a < b
    /\ pending[a].key = pending[b].key

C30_RangesUnderCurrentLanguage ==
    (lastProvide.returned /\ lastProvide.cancelled = "no") =>
        lastProvide.ranges = MultiLineRanges(lastProvide.scan)

====
